---------------------------- MODULE Spec2Model ----------------------------
(***************************************************************************)
(* Weierstrass -> Montgomery curve transformation (src/src/main.rs).        *)
(*                                                                         *)
(* The program works on num_bigint::BigInt values.  Since the interesting  *)
(* moduli of mod_sqrt exceed the machine word, BigInt is modelled as what  *)
(* it is: a sign and a magnitude held as little-endian limbs in base Base. *)
(* The four functions of the program are modelled as a state machine with  *)
(* one action per straight-line block, a return-address stack `cont` and   *)
(* one record of locals per function.                                      *)
(***************************************************************************)
EXTENDS Integers, Sequences, FiniteSets, TLC

(***************************************************************************)
(* BigInt: magnitudes.  A magnitude is a sequence of limbs in 0..Base-1,   *)
(* least significant first, without leading (high) zero limbs; <<>> is 0.  *)
(***************************************************************************)
LimbBits == 15
Base == 2 ^ LimbBits

RECURSIVE MagTrim(_)
MagTrim(d) ==
    IF d = <<>> THEN <<>>
    ELSE IF d[Len(d)] = 0 THEN MagTrim(SubSeq(d, 1, Len(d) - 1))
    ELSE d

RECURSIVE MagFromNat(_)
MagFromNat(n) ==
    IF n = 0 THEN <<>> ELSE <<n % Base>> \o MagFromNat(n \div Base)

\* Only for magnitudes that fit TLC's 32-bit integers.
RECURSIVE MagToNat(_)
MagToNat(d) ==
    IF d = <<>> THEN 0 ELSE d[1] + Base * MagToNat(Tail(d))

Limb(d, k) == IF k <= Len(d) THEN d[k] ELSE 0

RECURSIVE MagCmpFrom(_, _, _)
MagCmpFrom(d, e, k) ==
    IF k = 0 THEN 0
    ELSE IF d[k] < e[k] THEN -1
    ELSE IF d[k] > e[k] THEN 1
    ELSE MagCmpFrom(d, e, k - 1)

MagCmp(d, e) ==
    IF Len(d) < Len(e) THEN -1
    ELSE IF Len(d) > Len(e) THEN 1
    ELSE MagCmpFrom(d, e, Len(d))

RECURSIVE MagAddFrom(_, _, _, _)
MagAddFrom(d, e, k, carry) ==
    IF k > Len(d) /\ k > Len(e)
    THEN (IF carry = 0 THEN <<>> ELSE <<carry>>)
    ELSE LET sum == Limb(d, k) + Limb(e, k) + carry
         IN  <<sum % Base>> \o MagAddFrom(d, e, k + 1, sum \div Base)

MagAdd(d, e) == MagAddFrom(d, e, 1, 0)

\* d - e for d >= e
RECURSIVE MagSubFrom(_, _, _, _)
MagSubFrom(d, e, k, borrow) ==
    IF k > Len(d) THEN <<>>
    ELSE LET diff == Limb(d, k) - Limb(e, k) - borrow
         IN  IF diff < 0
             THEN <<diff + Base>> \o MagSubFrom(d, e, k + 1, 1)
             ELSE <<diff>> \o MagSubFrom(d, e, k + 1, 0)

MagSub(d, e) == MagTrim(MagSubFrom(d, e, 1, 0))

\* d * (one limb w), before trimming
RECURSIVE MagMulLimbFrom(_, _, _, _)
MagMulLimbFrom(d, w, k, carry) ==
    IF k > Len(d)
    THEN (IF carry = 0 THEN <<>> ELSE <<carry>>)
    ELSE LET prod == d[k] * w + carry
         IN  <<prod % Base>> \o MagMulLimbFrom(d, w, k + 1, prod \div Base)

RECURSIVE MagMulFrom(_, _, _)
MagMulFrom(d, e, k) ==
    IF k > Len(e) THEN <<>>
    ELSE MagAdd(MagMulLimbFrom(d, e[k], 1, 0),
                <<0>> \o MagMulFrom(d, e, k + 1))

MagMul(d, e) ==
    IF d = <<>> \/ e = <<>> THEN <<>> ELSE MagTrim(MagMulFrom(d, e, 1))

\* Division by a one-limb divisor w: <<quotient, remainder>>, high limb first.
RECURSIVE MagShortDiv(_, _, _, _)
MagShortDiv(d, w, k, rem) ==
    IF k = 0 THEN <<<<>>, rem>>
    ELSE LET cur  == rem * Base + d[k]
             rest == MagShortDiv(d, w, k - 1, cur % w)
         IN  <<rest[1] \o <<cur \div w>>, rest[2]>>

\* d * (one limb w)
MagMulLimb(d, w) == MagTrim(MagMulLimbFrom(d, w, 1, 0))

\* The digit cur div e for cur < e * Base, where e has n >= 2 limbs and its
\* top limb is at least Base / 2: the estimate from the top limbs of cur and
\* e, capped at Base - 1, is at most two above the digit (Knuth, TAOCP
\* 4.3.1, Theorem B).
MagDigitEstimate(cur, e) ==
    LET est == (Limb(cur, Len(e) + 1) * Base + Limb(cur, Len(e))) \div e[Len(e)]
    IN  IF est > Base - 1 THEN Base - 1 ELSE est

MagDigitFrom(cur, e, qhat) ==
    IF MagCmp(MagMulLimb(e, qhat), cur) <= 0 THEN qhat
    ELSE IF MagCmp(MagMulLimb(e, qhat - 1), cur) <= 0 THEN qhat - 1
    ELSE qhat - 2

MagDigit(cur, e) == MagDigitFrom(cur, e, MagDigitEstimate(cur, e))

\* Schoolbook long division of limbs k..1 of d by e (as for MagDigit), rem
\* being the remainder of the limbs above k: <<quotient limbs, remainder>>.
RECURSIVE MagLongDiv(_, _, _, _)
MagLongDivPut(rest, digit) == <<rest[1] \o <<digit>>, rest[2]>>

MagLongDivDigit(d, e, k, cur, digit) ==
    IF digit = 0 THEN MagLongDivPut(MagLongDiv(d, e, k - 1, cur), digit)
    ELSE MagLongDivPut(MagLongDiv(d, e, k - 1, MagSub(cur, MagMulLimb(e, digit))), digit)

MagLongDivLimb(d, e, k, cur) == MagLongDivDigit(d, e, k, cur, MagDigit(cur, e))

MagLongDiv(d, e, k, rem) ==
    IF k = 0 THEN <<<<>>, rem>>
    ELSE MagLongDivLimb(d, e, k, MagTrim(<<d[k]>> \o rem))

\* <<d div e, d mod e>> for e # 0.  A divisor of several limbs is first
\* scaled, with the dividend, so that its top limb is at least Base / 2;
\* the remainder is scaled back.
MagShortQuo(d, w) == MagTrim(MagShortDiv(d, w, Len(d), 0)[1])

MagUnscale(qr, scale) == <<MagTrim(qr[1]), MagShortQuo(qr[2], scale)>>

MagScaledDiv(ds, es, scale) == MagUnscale(MagLongDiv(ds, es, Len(ds), <<>>), scale)

MagShortDivRem(qr) == <<MagTrim(qr[1]), MagFromNat(qr[2])>>

MagDivRem(d, e) ==
    IF MagCmp(d, e) < 0 THEN <<<<>>, d>>
    ELSE IF Len(e) = 1 THEN MagShortDivRem(MagShortDiv(d, e[1], Len(d), 0))
    ELSE MagScaledDiv(MagMulLimb(d, Base \div (e[Len(e)] + 1)),
                      MagMulLimb(e, Base \div (e[Len(e)] + 1)),
                      Base \div (e[Len(e)] + 1))

MagIsEven(d) == d = <<>> \/ d[1] % 2 = 0

\* d * e mod n
MagMulMod(d, e, n) == MagDivRem(MagMul(d, e), n)[2]

\* Bit k (0 = lowest) of e
MagBit(e, k) == (e[(k \div LimbBits) + 1] \div (2 ^ (k % LimbBits))) % 2

\* One step of binary exponentiation, high bit first: acc^2 * d^bit mod n
MagPowTimes(sq, d, bit, n) == IF sq = <<>> \/ bit = 0 THEN sq ELSE MagMulMod(sq, d, n)

MagPowStep(acc, d, bit, n) == MagPowTimes(MagMulMod(acc, acc, n), d, bit, n)

\* The steps for bits hi down to lo of e, from acc.  The range is halved
\* rather than walked so that the evaluation stays shallow.
RECURSIVE MagPowBits(_, _, _, _, _, _)
MagPowBits(acc, d, e, lo, hi, n) ==
    IF acc = <<>> \/ lo > hi THEN acc
    ELSE IF lo = hi THEN MagPowStep(acc, d, MagBit(e, lo), n)
    ELSE MagPowBits(MagPowBits(acc, d, e, ((lo + hi) \div 2) + 1, hi, n),
                    d, e, lo, (lo + hi) \div 2, n)

\* d ^ e mod n for d < n
MagModPow(d, e, n) ==
    MagPowBits(IF n = <<1>> THEN <<>> ELSE <<1>>, d, e, 0, LimbBits * Len(e) - 1, n)

(***************************************************************************)
(* BigInt: a sign and a magnitude, zero being non-negative, with the       *)
(* operations of num_bigint / num_integer the program uses.                *)
(***************************************************************************)
MkBig(negative, d) == [neg |-> negative /\ d # <<>>, mag |-> d]

Big(n) == IF n < 0 THEN MkBig(TRUE, MagFromNat(-n)) ELSE MkBig(FALSE, MagFromNat(n))

\* Only for values that fit TLC's 32-bit integers.
BigToInt(v) == IF v.neg THEN -MagToNat(v.mag) ELSE MagToNat(v.mag)

BigZero == Big(0)
BigOne  == Big(1)

BigIsZero(v) == v.mag = <<>>
BigIsEven(v) == MagIsEven(v.mag)
BigNeg(v) == MkBig(~v.neg, v.mag)

BigAdd(v, w) ==
    IF v.neg = w.neg THEN MkBig(v.neg, MagAdd(v.mag, w.mag))
    ELSE IF MagCmp(v.mag, w.mag) >= 0 THEN MkBig(v.neg, MagSub(v.mag, w.mag))
    ELSE MkBig(w.neg, MagSub(w.mag, v.mag))

BigSub(v, w) == BigAdd(v, BigNeg(w))

BigMul(v, w) == MkBig(v.neg # w.neg, MagMul(v.mag, w.mag))

\* `/` and `%` of BigInt truncate towards zero; the remainder has the sign of
\* the dividend.  Both panic on a zero divisor; the program never divides by it.
BigDiv(v, w) == MkBig(v.neg # w.neg, MagDivRem(v.mag, w.mag)[1])
BigRem(v, w) == MkBig(v.neg, MagDivRem(v.mag, w.mag)[2])

\* Integer::mod_floor: the remainder has the sign of the divisor.
BigFloorOf(rem, w) ==
    IF BigIsZero(rem) \/ rem.neg = w.neg THEN rem ELSE BigAdd(rem, w)

BigModFloor(v, w) == BigFloorOf(BigRem(v, w), w)

\* v ^ k for a machine integer k >= 0
RECURSIVE BigPow(_, _)
BigPowTimes(sq, v, k) == IF k % 2 = 0 THEN sq ELSE BigMul(sq, v)

BigPowSquare(h, v, k) == IF BigIsZero(h) THEN h ELSE BigPowTimes(BigMul(h, h), v, k)

BigPow(v, k) == IF k = 0 THEN BigOne ELSE BigPowSquare(BigPow(v, k \div 2), v, k)

\* BigInt::modpow for a non-negative exponent: rounds like mod_floor.
BigModPowSigned(res, flip, n) ==
    IF res = <<>> THEN BigZero
    ELSE IF flip = n.neg THEN MkBig(n.neg, res)
    ELSE MkBig(n.neg, MagSub(n.mag, res))

BigModPow(v, e, n) ==
    BigModPowSigned(MagModPow(MagDivRem(v.mag, n.mag)[2], e.mag, n.mag),
                    v.neg /\ ~MagIsEven(e.mag), n)

(***************************************************************************)
(* Option values.  None carries a placeholder of the payload's shape.      *)
(***************************************************************************)
Some(v) == [some |-> TRUE, val |-> v]
None == [some |-> FALSE, val |-> BigZero]
NoneOutput == [some |-> FALSE, val |-> <<BigZero, BigZero, BigZero, BigZero>>]

(***************************************************************************)
(* The inputs the model is run on.                                         *)
(***************************************************************************)
MaxP     == 11    \* transform_to_montgomery: every odd prime up to MaxP
MaxSqrtP == 41    \* mod_sqrt: every odd prime up to MaxSqrtP (and 2)
MaxInv   == 12    \* mod_inverse: |value| and modulus up to MaxInv
MaxGcd   == 9     \* extended_gcd: |a| and |b| up to MaxGcd

\* The example of main().
ExampleA == 8
ExampleB == 2
ExampleP == 17
ExampleX == 14
ExampleY == 6

IsOddPrime(n) == n >= 3 /\ \A k \in 2..(n - 1) : n % k # 0
OddPrimes(n) == {k \in 3..n : IsOddPrime(k)}

\* A prime p with 2^36 dividing p - 1: the Proth prime 3 * 2^36 + 1.
\* Here mod_sqrt starts its main loop with m = 36.
ProthPrime == BigAdd(BigMul(Big(3), BigPow(Big(2), 36)), BigOne)

OnCurve(x, y, a, b, p) == (y * y - (x * x * x + a * x + b)) % p = 0

TransformArgs(x, y, a, b, p) ==
    [x |-> Big(x), y |-> Big(y), a |-> Big(a), b |-> Big(b), p |-> Big(p)]

\* Over ProthPrime: the curve y^2 = x^3 - x with the point (0, 0); the cubic
\* z^3 - z has the roots 0, 1 and p - 1.
ProthArgs ==
    [x |-> BigZero, y |-> BigZero, a |-> BigSub(ProthPrime, BigOne),
     b |-> BigZero, p |-> ProthPrime]

SmallTransformInputs ==
    {TransformArgs(w[1], w[2], w[3], w[4], w[5]) :
        w \in {v \in UNION {(0..(p - 1)) \X (0..(p - 1)) \X (0..(p - 1))
                              \X (0..(p - 1)) \X {p} : p \in OddPrimes(MaxP)} :
                 \/ OnCurve(v[1], v[2], v[3], v[4], v[5])
                 \/ (v[1] = 0 /\ v[2] = 1)}}

TransformInputs ==
    SmallTransformInputs
        \cup {TransformArgs(ExampleX, ExampleY, ExampleA, ExampleB, ExampleP)}
        \cup {ProthArgs}

\* mod_sqrt takes any value, reduced or not.
SqrtInputs ==
    {[value |-> Big(w[1]), p |-> Big(w[2])] :
        w \in UNION {(0..(2 * p)) \X {p} : p \in OddPrimes(MaxSqrtP) \cup {2}}}
        \cup {[value |-> v, p |-> ProthPrime] :
                v \in {BigSub(ProthPrime, BigOne), Big(4), ProthPrime}}

InverseInputs ==
    {[value |-> Big(w[1]), modulus |-> Big(w[2])] :
        w \in ((-MaxInv)..MaxInv) \X (1..MaxInv)}

GcdInputs ==
    {[a |-> Big(w[1]), b |-> Big(w[2])] :
        w \in (((-MaxGcd)..MaxGcd) \X ((-MaxGcd)..MaxGcd)) \cup {<<240, 46>>}}

\* What the random source may hand out for gen_bigint_range(0, p): every
\* value of [0, p) when p is one limb; for a larger p the values are too
\* many to enumerate and the source is taken to draw among a few of them.
Draws(p) ==
    IF Len(p.mag) <= 1 THEN {Big(k) : k \in 0..(BigToInt(p) - 1)}
    ELSE {BigZero, Big(2), BigSub(p, BigOne)}

(***************************************************************************)
(* State.                                                                  *)
(***************************************************************************)
VARIABLES
    call,       \* the function called from outside and its arguments
    pc,         \* the place the program is at
    cont,       \* return addresses of the calls in progress, innermost first
    tr,         \* transform_to_montgomery: arguments and locals
    tr_ret,     \* ... and what it returned
    sq,         \* mod_sqrt: arguments and locals
    sq_ret,     \* ... and what it returned
    inv,        \* mod_inverse: arguments
    inv_ret,    \* ... and what it returned
    frames,     \* extended_gcd: the (a, b) of each activation, innermost last
    gcd_ret     \* ... and what the activation that returned last returned

vars == <<call, pc, cont, tr, tr_ret, sq, sq_ret, inv, inv_ret, frames, gcd_ret>>

NoTr  == [x |-> BigZero, y |-> BigZero, a |-> BigZero, b |-> BigZero, p |-> BigZero,
          candidate |-> BigZero, z0 |-> BigZero, s_squared |-> BigZero,
          s |-> BigZero, s_inv |-> BigZero]
NoSq  == [value |-> BigZero, p |-> BigZero, q |-> BigZero, s |-> 0, z |-> BigZero,
          m |-> 0, c |-> BigZero, t |-> BigZero, r |-> BigZero, i |-> 0,
          t2i |-> BigZero, b |-> BigZero]
NoInv == [value |-> BigZero, modulus |-> BigZero]
NoGcdRet == <<BigZero, BigZero, BigZero>>

\* The locals of a fresh activation of each function.
EnterTr(args) == [NoTr EXCEPT !.x = args.x, !.y = args.y, !.a = args.a,
                              !.b = args.b, !.p = args.p]
EnterSq(value, p) == [NoSq EXCEPT !.value = value, !.p = p]
EnterInv(value, modulus) == [value |-> value, modulus |-> modulus]

InitCommon ==
    /\ cont = <<"done">>
    /\ tr_ret = NoneOutput
    /\ sq_ret = None
    /\ inv_ret = None
    /\ gcd_ret = NoGcdRet

InitTransformOn(inputs) ==
    /\ \E args \in inputs :
          /\ call = [fn |-> "transform_to_montgomery", args |-> args]
          /\ tr = EnterTr(args)
    /\ pc = "t_search"
    /\ sq = NoSq /\ inv = NoInv /\ frames = <<>>
    /\ InitCommon

InitTransform == InitTransformOn(TransformInputs)

InitSqrt ==
    /\ \E args \in SqrtInputs :
          /\ call = [fn |-> "mod_sqrt", args |-> args]
          /\ sq = EnterSq(args.value, args.p)
    /\ pc = "sqrt_entry"
    /\ tr = NoTr /\ inv = NoInv /\ frames = <<>>
    /\ InitCommon

InitInverse ==
    /\ \E args \in InverseInputs :
          /\ call = [fn |-> "mod_inverse", args |-> args]
          /\ inv = EnterInv(args.value, args.modulus)
    /\ pc = "inv_entry"
    /\ tr = NoTr /\ sq = NoSq /\ frames = <<>>
    /\ InitCommon

InitGcd ==
    /\ \E args \in GcdInputs :
          /\ call = [fn |-> "extended_gcd", args |-> args]
          /\ frames = <<[a |-> args.a, b |-> args.b]>>
    /\ pc = "gcd_entry"
    /\ tr = NoTr /\ sq = NoSq /\ inv = NoInv
    /\ InitCommon

\* `return`: control goes back to the innermost return address.
Return == pc' = Head(cont) /\ cont' = Tail(cont)
\* A call: control goes to `entry` and comes back at `back`.
Call(entry, back) == pc' = entry /\ cont' = <<back>> \o cont

(***************************************************************************)
(* extended_gcd (lines 22-29), one action per activation step.             *)
(***************************************************************************)
Top == frames[Len(frames)]
Pop == SubSeq(frames, 1, Len(frames) - 1)

\* line 23-24: b.is_zero(), this activation returns (a, 1, 0)
Gcd_Base ==
    /\ pc = "gcd_entry"
    /\ BigIsZero(Top.b)
    /\ gcd_ret' = <<Top.a, BigOne, BigZero>>
    /\ frames' = Pop
    /\ IF Len(frames) = 1 THEN Return ELSE pc' = "gcd_back" /\ cont' = cont
    /\ UNCHANGED <<call, tr, tr_ret, sq, sq_ret, inv, inv_ret>>

\* line 26: the recursive call extended_gcd(b, &(a % b))
Gcd_Recurse ==
    /\ pc = "gcd_entry"
    /\ ~BigIsZero(Top.b)
    /\ frames' = Append(frames, [a |-> Top.b, b |-> BigRem(Top.a, Top.b)])
    /\ UNCHANGED <<call, pc, cont, tr, tr_ret, sq, sq_ret, inv, inv_ret, gcd_ret>>

\* A faulty back-substitution, which forgets to swap the two coefficients.
BackSubstituteUnswapped(a, b, got) ==
    <<got[1], got[2], BigSub(got[3], BigMul(BigDiv(a, b), got[2]))>>

\* The back-substitution of line 27 for the activation (a, b), given what
\* the recursive call returned.
BackSubstitute(a, b, got) ==
    <<got[1], got[3], BigSub(got[2], BigMul(BigDiv(a, b), got[3]))>>

\* line 26-27: the recursive call has returned (gcd, x1, y1)
Gcd_Back ==
    /\ pc = "gcd_back"
    /\ gcd_ret' = BackSubstitute(Top.a, Top.b, gcd_ret)
    /\ frames' = Pop
    /\ IF Len(frames) = 1 THEN Return ELSE pc' = "gcd_back" /\ cont' = cont
    /\ UNCHANGED <<call, tr, tr_ret, sq, sq_ret, inv, inv_ret>>

(***************************************************************************)
(* mod_inverse (lines 12-19)                                               *)
(***************************************************************************)
\* line 13: the call extended_gcd(value, modulus)
Inv_Call ==
    /\ pc = "inv_entry"
    /\ frames' = <<[a |-> inv.value, b |-> inv.modulus]>>
    /\ Call("gcd_entry", "inv_gcd_ret")
    /\ UNCHANGED <<call, tr, tr_ret, sq, sq_ret, inv, inv_ret, gcd_ret>>

\* A faulty mod_inverse, which does not look at the gcd.
InverseOfUnchecked(gcd, x, modulus) ==
    Some(BigRem(BigAdd(BigRem(x, modulus), modulus), modulus))

\* line 14-18 on the (gcd, x, _) that extended_gcd returned
InverseOf(gcd, x, modulus) ==
    IF gcd # BigOne THEN None
    ELSE Some(BigRem(BigAdd(BigRem(x, modulus), modulus), modulus))

Inv_Ret ==
    /\ pc = "inv_gcd_ret"
    /\ inv_ret' = InverseOf(gcd_ret[1], gcd_ret[2], inv.modulus)
    /\ Return
    /\ UNCHANGED <<call, tr, tr_ret, sq, sq_ret, inv, frames, gcd_ret>>

(***************************************************************************)
(* mod_sqrt (lines 33-80): Tonelli-Shanks                                  *)
(***************************************************************************)
\* (p - 1u32) / 2u32
HalfOrder(p) == BigDiv(BigSub(p, BigOne), Big(2))

\* A faulty test, with Fermat's exponent p - 1 in place of (p - 1) / 2.
EulerFullOrder(value, p) == BigModPow(value, BigSub(p, BigOne), p) = BigOne

\* line 40: Euler's criterion
EulerIsOne(value, p) == BigModPow(value, HalfOrder(p), p) = BigOne

\* line 34-45: the early returns, then q = p - 1 and s = 0
Sqrt_Entry ==
    /\ pc = "sqrt_entry"
    /\ IF BigIsZero(sq.value)
       THEN sq_ret' = Some(BigZero) /\ Return /\ sq' = sq
       ELSE IF sq.p = Big(2)
       THEN sq_ret' = Some(sq.value) /\ Return /\ sq' = sq
       ELSE IF ~EulerIsOne(sq.value, sq.p)
       THEN sq_ret' = None /\ Return /\ sq' = sq
       ELSE /\ sq' = [sq EXCEPT !.q = BigSub(sq.p, BigOne), !.s = 0]
            /\ pc' = "sqrt_factor"
            /\ UNCHANGED <<cont, sq_ret>>
    /\ UNCHANGED <<call, tr, tr_ret, inv, inv_ret, frames, gcd_ret>>

\* line 46-49: one turn of `while q.is_even()`
Sqrt_Factor ==
    /\ pc = "sqrt_factor"
    /\ IF BigIsEven(sq.q)
       THEN /\ sq' = [sq EXCEPT !.q = BigDiv(sq.q, Big(2)), !.s = sq.s + 1]
            /\ pc' = pc
       ELSE /\ sq' = sq
            /\ pc' = "sqrt_find_z"
    /\ UNCHANGED <<call, cont, tr, tr_ret, sq_ret, inv, inv_ret, frames, gcd_ret>>

\* line 51-54: (2u32..).map(BigInt::from).find(..): the first n from `n` on
\* with n^((p-1)/2) = p - 1 (mod p).  The search runs on until it finds one.
RECURSIVE FindNonResidue(_, _)
FindNonResidue(n, p) ==
    IF BigModPow(Big(n), HalfOrder(p), p) = BigSub(p, BigOne) THEN Big(n)
    ELSE FindNonResidue(n + 1, p)

Sqrt_FindZ ==
    /\ pc = "sqrt_find_z"
    /\ sq' = [sq EXCEPT !.z = FindNonResidue(2, sq.p)]
    /\ pc' = "sqrt_init"
    /\ UNCHANGED <<call, cont, tr, tr_ret, sq_ret, inv, inv_ret, frames, gcd_ret>>

\* line 56-59
Sqrt_Init ==
    /\ pc = "sqrt_init"
    /\ sq' = [sq EXCEPT
                !.m = sq.s,
                !.c = BigModPow(sq.z, sq.q, sq.p),
                !.t = BigModPow(sq.value, sq.q, sq.p),
                !.r = BigModPow(sq.value, BigDiv(BigAdd(sq.q, BigOne), Big(2)), sq.p)]
    /\ pc' = "sqrt_loop"
    /\ UNCHANGED <<call, cont, tr, tr_ret, sq_ret, inv, inv_ret, frames, gcd_ret>>

\* line 61-63 and 79: the test of `while t != 1`
Sqrt_Loop ==
    /\ pc = "sqrt_loop"
    /\ IF sq.t # BigOne
       THEN /\ sq' = [sq EXCEPT !.i = 0, !.t2i = sq.t]
            /\ pc' = "sqrt_inner"
            /\ UNCHANGED <<cont, sq_ret>>
       ELSE /\ sq_ret' = Some(sq.r)
            /\ Return
            /\ sq' = sq
    /\ UNCHANGED <<call, tr, tr_ret, inv, inv_ret, frames, gcd_ret>>

\* line 64-70: one turn of `while t2i != 1`
Sqrt_Inner ==
    /\ pc = "sqrt_inner"
    /\ IF sq.t2i # BigOne
       THEN /\ sq' = [sq EXCEPT !.t2i = BigModPow(sq.t2i, Big(2), sq.p),
                                !.i = sq.i + 1]
            /\ IF sq.i + 1 = sq.m
               THEN sq_ret' = None /\ Return
               ELSE pc' = pc /\ UNCHANGED <<cont, sq_ret>>
       ELSE /\ sq' = sq
            /\ pc' = "sqrt_update"
            /\ UNCHANGED <<cont, sq_ret>>
    /\ UNCHANGED <<call, tr, tr_ret, inv, inv_ret, frames, gcd_ret>>

\* 1u32 << k.  The shift amount of a u32 must be below 32: a build with
\* overflow checks panics on a larger one, a build without them shifts by
\* the amount's low five bits.
ShiftWidth == 32
ShlOverflows(k) == k < 0 \/ k >= ShiftWidth
Shl1u32(k) == BigPow(Big(2), k % ShiftWidth)

\* line 72-76 with the exponent e of line 72
UpdateWithBC(b, c) ==
    [sq EXCEPT !.b = b,
               !.m = sq.i,
               !.c = c,
               !.t = BigRem(BigMul(sq.t, c), sq.p),
               !.r = BigRem(BigMul(sq.r, b), sq.p)]

UpdateWithB(b) == UpdateWithBC(b, BigModPow(b, Big(2), sq.p))

UpdateWith(e) == UpdateWithB(BigModPow(sq.c, e, sq.p))

Sqrt_Update ==
    /\ pc = "sqrt_update"
    /\ \E checked \in BOOLEAN :
          IF ShlOverflows(sq.m - sq.i - 1) /\ checked
          THEN pc' = "panic" /\ sq' = sq
          ELSE pc' = "sqrt_loop" /\ sq' = UpdateWith(Shl1u32(sq.m - sq.i - 1))
    /\ UNCHANGED <<call, cont, tr, tr_ret, sq_ret, inv, inv_ret, frames, gcd_ret>>

(***************************************************************************)
(* transform_to_montgomery (lines 83-118)                                  *)
(***************************************************************************)
\* line 94: (candidate^3 + a * candidate + b).mod_floor(p).is_zero()
IsRoot(candidate, a, b, p) ==
    BigIsZero(BigModFloor(
        BigAdd(BigAdd(BigPow(candidate, 3), BigMul(a, candidate)), b), p))

\* line 92-98: one turn of the search loop, in which gen_bigint_range hands
\* out `candidate`
T_Draw(candidate) ==
    /\ pc = "t_search"
    /\ candidate \in Draws(tr.p)
    /\ IF IsRoot(candidate, tr.a, tr.b, tr.p)
       THEN /\ tr' = [tr EXCEPT !.candidate = candidate, !.z0 = candidate]
            /\ pc' = "t_s_squared"
       ELSE /\ tr' = [tr EXCEPT !.candidate = candidate]
            /\ pc' = pc
    /\ UNCHANGED <<call, cont, tr_ret, sq, sq_ret, inv, inv_ret, frames, gcd_ret>>

T_Search == \E candidate \in Draws(tr.p) : T_Draw(candidate)

\* line 101
SSquared(z0, a, p) ==
    BigModFloor(BigAdd(BigMul(BigMul(Big(3), z0), z0), a), p)

\* line 101 and the call mod_sqrt(&s_squared, p) of line 104
T_SSquared ==
    /\ pc = "t_s_squared"
    /\ tr' = [tr EXCEPT !.s_squared = SSquared(tr.z0, tr.a, tr.p)]
    /\ sq' = EnterSq(tr'.s_squared, tr.p)
    /\ Call("sqrt_entry", "t_sqrt_ret")
    /\ UNCHANGED <<call, tr_ret, sq_ret, inv, inv_ret, frames, gcd_ret>>

\* line 104: `?` on what mod_sqrt returned; line 107: the call mod_inverse(&s, p)
T_SqrtRet ==
    /\ pc = "t_sqrt_ret"
    /\ IF ~sq_ret.some
       THEN /\ tr_ret' = NoneOutput
            /\ Return
            /\ UNCHANGED <<tr, inv>>
       ELSE /\ tr' = [tr EXCEPT !.s = sq_ret.val]
            /\ inv' = EnterInv(sq_ret.val, tr.p)
            /\ Call("inv_entry", "t_inv_ret")
            /\ UNCHANGED tr_ret
    /\ UNCHANGED <<call, sq, sq_ret, inv_ret, frames, gcd_ret>>

\* line 111-117: (x_montgomery, y_montgomery, a_montgomery, b_montgomery)
a_montgomery(z0, s_inv, p) == BigModFloor(BigMul(BigMul(Big(3), z0), s_inv), p)
b_montgomery(s_inv, p) == BigModFloor(s_inv, p)
\* A faulty x_montgomery, which does not shift x by the root.
x_montgomery_unshifted(x, z0, s_inv, p) == BigModFloor(BigMul(s_inv, x), p)

x_montgomery(x, z0, s_inv, p) == BigModFloor(BigMul(s_inv, BigSub(x, z0)), p)
y_montgomery(y, s_inv, p) == BigModFloor(BigMul(s_inv, y), p)

Output(x, y, z0, s_inv, p) ==
    <<x_montgomery(x, z0, s_inv, p), y_montgomery(y, s_inv, p),
      a_montgomery(z0, s_inv, p), b_montgomery(s_inv, p)>>

\* line 107: `?` on what mod_inverse returned; line 111-117
T_InvRet ==
    /\ pc = "t_inv_ret"
    /\ IF ~inv_ret.some
       THEN /\ tr_ret' = NoneOutput
            /\ tr' = tr
       ELSE /\ tr' = [tr EXCEPT !.s_inv = inv_ret.val]
            /\ tr_ret' = Some(Output(tr.x, tr.y, tr.z0, inv_ret.val, tr.p))
    /\ Return
    /\ UNCHANGED <<call, sq, sq_ret, inv, inv_ret, frames, gcd_ret>>

(***************************************************************************)
(* Specifications: one per function called from outside.                   *)
(***************************************************************************)
GcdNext == Gcd_Base \/ Gcd_Recurse \/ Gcd_Back
InverseNext == Inv_Call \/ Inv_Ret \/ GcdNext
SqrtNext ==
    \/ Sqrt_Entry \/ Sqrt_Factor \/ Sqrt_FindZ \/ Sqrt_Init
    \/ Sqrt_Loop \/ Sqrt_Inner \/ Sqrt_Update
Next == T_Search \/ T_SSquared \/ T_SqrtRet \/ T_InvRet \/ SqrtNext \/ InverseNext

\* transform_to_montgomery, as main() calls it
Init == InitTransform
Spec == Init /\ [][Next]_vars

\* mod_sqrt called on its own
SpecSqrt == InitSqrt /\ [][SqrtNext]_vars

\* mod_inverse and extended_gcd called on their own
SpecInverse == (InitInverse \/ InitGcd) /\ [][InverseNext]_vars

(***************************************************************************)
(* The integers against which the results are judged.                     *)
(***************************************************************************)
Abs(n) == IF n < 0 THEN -n ELSE n

IsCommonDivisor(d, m, n) == m % d = 0 /\ n % d = 0

\* gcd(m, n) for naturals m, n, not both zero
GcdOf(m, n) ==
    CHOOSE d \in 1..(m + n) :
        /\ IsCommonDivisor(d, m, n)
        /\ \A e \in (d + 1)..(m + n) : ~IsCommonDivisor(e, m, n)

(***************************************************************************)
(* mod_inverse and extended_gcd                                            *)
(***************************************************************************)
InverseReturned == call.fn = "mod_inverse" /\ pc = "done"
InverseValue == BigToInt(call.args.value)
InverseModulus == BigToInt(call.args.modulus)
InverseCoprime == GcdOf(Abs(InverseValue), InverseModulus) = 1

\* C4: for every signed value and every modulus m >= 1 with
\* gcd(|value|, m) = 1, mod_inverse returns Some(r) with 0 <= r < m and
\* value * r = 1 (mod m); mod_inverse(3, 11) is 4.
C4_InverseOfCoprime ==
    (InverseReturned /\ InverseCoprime) =>
        /\ inv_ret.some
        /\ BigToInt(inv_ret.val) \in 0..(InverseModulus - 1)
        /\ (InverseValue * BigToInt(inv_ret.val) - 1) % InverseModulus = 0
        /\ (InverseValue = 3 /\ InverseModulus = 11) => BigToInt(inv_ret.val) = 4

\* C5: for every value and every modulus m >= 1 with gcd(|value|, m) # 1,
\* mod_inverse returns None, never a value.
C5_NoInverse ==
    (InverseReturned /\ ~InverseCoprime) => inv_ret = None

\* Reached: mod_inverse(-6, 4) has returned None.
C5_Witness ==
    /\ InverseReturned /\ ~InverseCoprime /\ ~inv_ret.some
    /\ InverseValue = -6 /\ InverseModulus = 4

GcdReturned == call.fn = "extended_gcd" /\ pc = "done"
GcdA == BigToInt(call.args.a)
GcdB == BigToInt(call.args.b)
GcdG == BigToInt(gcd_ret[1])
GcdX == BigToInt(gcd_ret[2])
GcdY == BigToInt(gcd_ret[3])

\* |b| of each activation of extended_gcd is below that of its caller.
SecondArgumentDecreases ==
    \A k \in 2..Len(frames) :
        Abs(BigToInt(frames[k].b)) < Abs(BigToInt(frames[k - 1].b))

\* C6: for a, b not both zero extended_gcd(a, b) returns (g, x, y) with
\* a * x + b * y = g, g dividing a and b, and |g| = gcd(|a|, |b|); the
\* absolute value of the second argument decreases strictly at every
\* recursive call; extended_gcd(240, 46) is (2, -9, 47).
C6_Bezout ==
    /\ SecondArgumentDecreases
    /\ (GcdReturned /\ (GcdA # 0 \/ GcdB # 0)) =>
          /\ GcdA * GcdX + GcdB * GcdY = GcdG
          /\ GcdG # 0
          /\ GcdA % Abs(GcdG) = 0 /\ GcdB % Abs(GcdG) = 0
          /\ Abs(GcdG) = GcdOf(Abs(GcdA), Abs(GcdB))
          /\ (GcdA = 240 /\ GcdB = 46) => <<GcdG, GcdX, GcdY>> = <<2, -9, 47>>

\* Reached: extended_gcd(240, 46) has returned, after four recursive calls.
C6_Witness ==
    GcdReturned /\ GcdA = 240 /\ GcdB = 46 /\ <<GcdG, GcdX, GcdY>> = <<2, -9, 47>>

(***************************************************************************)
(* mod_sqrt                                                                *)
(***************************************************************************)
OneLimb(v) == Len(v.mag) <= 1

\* 0 <= r < p
InRange(r, p) == ~r.neg /\ MagCmp(r.mag, p.mag) < 0

\* v = w (mod p)
Congruent(v, w, p) == BigIsZero(BigModFloor(BigSub(v, w), p))

\* Some r in [1, p) has r^2 = v (mod p), for integers v and p.
HasSquareRoot(v, p) == \E r \in 1..(p - 1) : (r * r - v) % p = 0

\* v is a non-zero square modulo the odd prime p: by enumeration when p is
\* one limb, by Euler's criterion otherwise.
IsResidue(v, p) ==
    IF OneLimb(p) THEN HasSquareRoot(BigToInt(v), BigToInt(p))
    ELSE BigModPow(v, BigDiv(BigSub(p, BigOne), Big(2)), p) = BigOne

\* The p of the runs are 2, the odd primes up to the bound, and ProthPrime.
IsOddPrimeBig(p) == IF OneLimb(p) THEN IsOddPrime(BigToInt(p)) ELSE p = ProthPrime

SqrtCalled == call.fn = "mod_sqrt"
SqrtReturned == SqrtCalled /\ pc = "done"
SqrtStopped == SqrtCalled /\ pc \in {"done", "panic"}

\* value in [1, p - 1] for an odd prime p
SqrtInField ==
    /\ IsOddPrimeBig(call.args.p)
    /\ ~BigIsZero(call.args.value)
    /\ InRange(call.args.value, call.args.p)

\* C2: for every odd prime p and every quadratic residue v in [1, p - 1],
\* mod_sqrt(v, p) returns Some(r) with r in [0, p) and r^2 = v (mod p), and
\* never None; mod_sqrt(4, 7) is 2 or 5.
C2_SqrtOfResidue ==
    (SqrtStopped /\ SqrtInField /\ IsResidue(call.args.value, call.args.p)) =>
        /\ pc = "done"
        /\ sq_ret.some
        /\ InRange(sq_ret.val, call.args.p)
        /\ Congruent(BigMul(sq_ret.val, sq_ret.val), call.args.value, call.args.p)
        /\ (call.args.value = Big(4) /\ call.args.p = Big(7)) =>
               sq_ret.val \in {Big(2), Big(5)}

\* C3: for every odd prime p and every quadratic non-residue v in
\* [1, p - 1], mod_sqrt(v, p) returns None, and does so at the test of
\* Euler's criterion: it never gets to factor p - 1, to search for a
\* non-residue or to run the main loop.
C3_NonResidue ==
    (SqrtCalled /\ SqrtInField /\ ~IsResidue(call.args.value, call.args.p)) =>
        /\ pc \in {"sqrt_entry", "done"}
        /\ pc = "done" => sq_ret = None

\* Reached: mod_sqrt(3, 7) has returned None.
C3_Witness ==
    /\ SqrtReturned /\ call.args.value = Big(3) /\ call.args.p = Big(7)
    /\ ~IsResidue(call.args.value, call.args.p)
    /\ sq_ret = None

\* C9: for every prime p and every v = 0 (mod p), the non-zero multiples of
\* p included, mod_sqrt(v, p) returns Some(0); and for p = 2 it returns
\* Some(v) for every v.  (For p = 2 and an even v # 0 the two halves ask
\* for different results; the formula asks for Some(v) there, and for
\* Some(0) only when v = 0 or p is odd.)
C9_SqrtOfZero ==
    SqrtReturned =>
        IF call.args.p = Big(2) THEN sq_ret = Some(call.args.value)
        ELSE BigIsZero(BigRem(call.args.value, call.args.p)) => sq_ret = Some(BigZero)

\* v squared k times modulo p
RECURSIVE SquaredTimes(_, _, _)
SquaredTimes(v, k, p) ==
    IF BigIsZero(v) \/ k = 0 THEN v
    ELSE SquaredTimes(BigModFloor(BigMul(v, v), p), k - 1, p)

\* C10: every turn of the main loop of mod_sqrt sets b to c^(2^(m-i-1))
\* mod p, also when m - i - 1 >= 32, and updates m, c, t and r from that b.
C10_Update ==
    [][pc = "sqrt_update" =>
          /\ pc' = "sqrt_loop"
          /\ sq'.b = SquaredTimes(sq.c, sq.m - sq.i - 1, sq.p)
          /\ sq'.m = sq.i
          /\ Congruent(sq'.c, BigMul(sq'.b, sq'.b), sq.p)
          /\ Congruent(sq'.t, BigMul(sq.t, sq'.c), sq.p)
          /\ Congruent(sq'.r, BigMul(sq.r, sq'.b), sq.p)]_vars

(***************************************************************************)
(* transform_to_montgomery                                                 *)
(***************************************************************************)
TransformCalled == call.fn = "transform_to_montgomery"
TransformReturned == TransformCalled /\ pc = "done"
TransformStopped == TransformCalled /\ pc \in {"done", "panic"}

\* z^3 + a * z + b = 0 (mod p)
CubicVanishes(z, a, b, p) ==
    Congruent(BigAdd(BigMul(z, BigMul(z, z)), BigAdd(BigMul(a, z), b)), BigZero, p)

\* y^2 = x^3 + a * x + b (mod p)
PointOnCurve(args) ==
    Congruent(BigMul(args.y, args.y),
              BigAdd(BigMul(args.x, BigMul(args.x, args.x)),
                     BigAdd(BigMul(args.a, args.x), args.b)), args.p)

\* B * v^2 = u^3 + A * u^2 + u (mod p) for out = (u, v, A, B)
MontgomeryHolds(out, p) ==
    Congruent(BigMul(out[4], BigMul(out[2], out[2])),
              BigAdd(BigMul(out[1], BigMul(out[1], out[1])),
                     BigAdd(BigMul(out[3], BigMul(out[1], out[1])), out[1])), p)

ExampleArgs == TransformArgs(ExampleX, ExampleY, ExampleA, ExampleB, ExampleP)

\* C1: whenever transform_to_montgomery, called with a point of the curve
\* y^2 = x^3 + a x + b over an odd prime p, returns Some((x_montgomery,
\* y_montgomery, a_montgomery, b_montgomery)), the output satisfies
\* b_m * y_m^2 = x_m^3 + a_m * x_m^2 + x_m (mod p); the call of main(),
\* p = 17, a = 8, b = 2, (x, y) = (14, 6), returns Some.
C1_MontgomeryEquation ==
    TransformReturned =>
        /\ (tr_ret.some /\ PointOnCurve(call.args)) =>
               MontgomeryHolds(tr_ret.val, call.args.p)
        /\ call.args = ExampleArgs => tr_ret.some

\* Reached: the call of main() has returned Some, with an output that
\* satisfies the Montgomery equation.
C1_Witness ==
    /\ TransformReturned /\ call.args = ExampleArgs /\ PointOnCurve(call.args)
    /\ tr_ret.some /\ MontgomeryHolds(tr_ret.val, call.args.p)

\* The cubic of the call has a root in [0, p): by enumeration when p is one
\* limb; over ProthPrime the runs are on z^3 - z, which has the root 0.
CubicHasRoot ==
    IF OneLimb(call.args.p)
    THEN \E z \in 0..(BigToInt(call.args.p) - 1) :
            CubicVanishes(Big(z), call.args.a, call.args.b, call.args.p)
    ELSE CubicVanishes(BigZero, call.args.a, call.args.b, call.args.p)

\* C7: the search loop is left only with a root z0 in [0, p) of the cubic;
\* when the cubic has a root the call goes on to return Some or None, so it
\* is never cut short; when it has none the loop is never left and nothing
\* is returned.
C7_RootSearch ==
    TransformCalled =>
        /\ pc # "t_search" =>
              /\ InRange(tr.z0, call.args.p)
              /\ CubicVanishes(tr.z0, call.args.a, call.args.b, call.args.p)
        /\ CubicHasRoot => pc # "panic"
        /\ ~CubicHasRoot => (pc = "t_search" /\ tr_ret = NoneOutput)

\* 3 * z0^2 + a mod p, for the root the search has selected
SlopeSquared == BigModFloor(BigAdd(BigMul(Big(3), BigMul(tr.z0, tr.z0)), call.args.a),
                            call.args.p)

\* The output the claim gives for the s and s_inv of the run
ClaimedOutput ==
    <<BigModFloor(BigMul(tr.s_inv, BigSub(call.args.x, tr.z0)), call.args.p),
      BigModFloor(BigMul(tr.s_inv, call.args.y), call.args.p),
      BigModFloor(BigMul(Big(3), BigMul(tr.z0, tr.s_inv)), call.args.p),
      BigModFloor(tr.s_inv, call.args.p)>>

\* C8: transform_to_montgomery returns None exactly when 3 * z0^2 + a mod p
\* is a quadratic non-residue or 0; in every other case it returns Some of
\* a_m = 3 z0 s_inv, b_m = s_inv, x_m = s_inv (x - z0), y_m = s_inv y, all
\* reduced into [0, p), where s_inv * s = 1 and s^2 = 3 z0^2 + a (mod p).
\* On failure nothing but None is returned.
C8_FailsExactlyWhen ==
    TransformStopped =>
        IF BigIsZero(SlopeSquared) \/ ~IsResidue(SlopeSquared, call.args.p)
        THEN pc = "done" /\ tr_ret = NoneOutput
        ELSE /\ pc = "done"
             /\ tr_ret.some
             /\ Congruent(BigMul(tr.s, tr.s), SlopeSquared, call.args.p)
             /\ Congruent(BigMul(tr.s_inv, tr.s), BigOne, call.args.p)
             /\ tr_ret.val = ClaimedOutput
             /\ \A k \in 1..4 : InRange(tr_ret.val[k], call.args.p)
=============================================================================
